---- MODULE Spec2Model ----
(***************************************************************************)
(* Model of ee-atmcorr-coefficients-timeseries.py: a script that walks a   *)
(* time-sorted Sentinel-2 collection, derives per-band atmospheric         *)
(* correction coefficients for every scene, optionally builds corrected    *)
(* images and export tasks, and pretty-prints the coefficient list.        *)
(*                                                                         *)
(* Reals are kept in fixed point: cosines and the orbit correction in      *)
(* thousandths, table outputs as integers.  Earth Engine objects are the   *)
(* client-side expression trees the API builds.                            *)
(***************************************************************************)
EXTENDS Integers, Sequences, FiniteSets, TLC

VARIABLES
    S2List,             \* the sorted collection as a list of scene infos
    KM,                 \* sensor altitude in km
    export_flag,        \* the value line 163 assigns to EXPORT
    missing_iluts,      \* band numbers whose .ilut file cannot be opened
    ilut_raises,        \* whether the pickled tables raise outside their domain
    pc,                 \* position of the script
    img_idx,            \* loop index (0-based), next scene to process
    img_info_properties,
    atm_vars,
    EXPORT,             \* the global name EXPORT: "unbound", "True" or "False"
    coeff_list,
    corrected_images,
    export_list,
    report,             \* coeff_list.txt
    error,              \* the uncaught exception, "none" while there is none
    attempts,           \* per scene, number of calls made to each external service
    ilut_loads,         \* per band, number of pickle.load calls
    atm_hist            \* the AtmParams obtained for each scene so far

vars == <<S2List, KM, export_flag, missing_iluts, ilut_raises, pc, img_idx,
          img_info_properties, atm_vars, EXPORT, coeff_list, corrected_images,
          export_list, report, error, attempts, ilut_loads, atm_hist>>

----------------------------------------------------------------------------
(* Program constants and bounded inputs *)

NO_OF_BANDS == 13

MaxImages == 2

\* system:time_start of the candidate scenes, in days counted from
\* 2015-12-31 (324 = 2016-11-19, 366 = 2016-12-31, 367 = 2017-01-01,
\* 400 = 2017-02-03): all inside START_DATE..STOP_DATE.
Times == {324, 366, 367, 400}

Altitudes == {0, 2}

MissingChoices == {{}, {1}, {NO_OF_BANDS}}

Services == {"info", "water", "ozone", "aerosol"}

\* What one call to an external service can answer.
Answer(v) == [ok |-> TRUE, value |-> v]
Failure == [ok |-> FALSE, value |-> 0]
InfoOutcomes == {Answer(0), Failure}
WaterOutcomes == {Answer(2), Answer(9), Failure}
OzoneOutcomes == {Answer(3), Failure}
AerosolOutcomes == {Answer(1), Failure}

BandNames == <<"B1", "B2", "B3", "B4", "B5", "B6", "B7", "B8", "B8A", "B9",
               "B10", "B11", "B12", "QA10", "QA20", "QA60">>

MeanSolarZenith(t) ==
    CASE t = 324 -> 45
      [] t = 366 -> 60
      [] t = 367 -> 60
      [] OTHER   -> 30

SolarIrradiance(bandname) ==
    LET i == CHOOSE j \in 1..Len(BandNames) : BandNames[j] = bandname
    IN  2000 - 100 * i

\* The properties dictionary getInfo() returns for the scene taken at t.
SceneInfo(t) ==
    [time_start |-> t, MEAN_SOLAR_ZENITH_ANGLE |-> MeanSolarZenith(t)]

RECURSIVE SortByTimeStart(_)
SortByTimeStart(S) ==
    IF S = {} THEN <<>>
    ELSE LET first == CHOOSE t \in S : \A u \in S : t <= u
         IN  <<SceneInfo(first)>> \o SortByTimeStart(S \ {first})

NO_OF_IMAGES == Len(S2List)

----------------------------------------------------------------------------
(* Fixed-point trigonometry on the values the inputs can take *)

\* tm_yday of the UTC date of a timestamp; 2016 has 366 days.
DayOfYear(t) == IF t <= 366 THEN t ELSE t - 366

\* 1000 * cos(doy / 59.66638337)
OrbitCosMilli(doy) ==
    CASE doy = 324 -> 658
      [] doy = 366 -> 989
      [] doy = 1   -> 1000
      [] OTHER     -> 842

\* 1000 * cos(radians(z))
ZenithCosMilli(z) ==
    CASE z = 30 -> 866
      [] z = 45 -> 707
      [] OTHER  -> 500

\* 1000 * cos(0.9856 * (doy - 4))
SunDistCosMilli(doy) ==
    CASE doy = 324 -> 332
      [] doy = 366 -> 215
      [] doy = 1   -> -983
      [] OTHER     -> -274

----------------------------------------------------------------------------
(* atm_corr_image *)

AtmParams(doy, solar_z, h2o, o3, aot) ==
    [doy |-> doy, solar_z |-> solar_z, h2o |-> h2o, o3 |-> o3, aot |-> aot]

NoAtmParams == AtmParams(0, 0, 0, 0, 0)
NoInfo == [time_start |-> 0, MEAN_SOLAR_ZENITH_ANGLE |-> 0]

\* One more call of service svc for scene i (1-based), whatever it answers.
AttemptWithRetry(att, i, svc, outcome) ==
    [att EXCEPT ![i][svc] = @ + (IF outcome.ok THEN 1 ELSE 2)]

Attempt(att, i, svc, outcome) ==
    [att EXCEPT ![i][svc] = @ + 1]

\* The three getInfo() calls are made in field order; the first one that
\* fails raises, and the later ones are not made.
atm_corr_image(imageInfo, w, o, a) ==
    LET called == IF ~w.ok THEN <<"water">>
                  ELSE IF ~o.ok THEN <<"water", "ozone">>
                  ELSE <<"water", "ozone", "aerosol">>
        outcomes == <<w, o, a>>
    IN  [raised |-> IF w.ok /\ o.ok /\ a.ok THEN "none" ELSE "EEException",
         called |-> called,
         outcomes |-> outcomes,
         value  |-> AtmParams(DayOfYear(imageInfo.time_start),
                              imageInfo.MEAN_SOLAR_ZENITH_ANGLE,
                              w.value, o.value, a.value)]

RECURSIVE AttemptAll(_, _, _, _, _)
AttemptAll(att, i, called, outcomes, n) ==
    IF n > Len(called) THEN att
    ELSE AttemptAll(Attempt(att, i, called[n], outcomes[n]), i, called, outcomes, n + 1)

----------------------------------------------------------------------------
(* get_corr_coef *)

\* The interpolation domain of the tables.
InDomain(solar_z, h2o, o3, aot, km) ==
    /\ solar_z \in 0..75
    /\ h2o \in 0..8
    /\ o3 \in 0..8
    /\ aot \in 0..3
    /\ km \in 0..8

\* The unpickled interpolator of one band, called at one point.  Outside its
\* domain it either raises or answers with an extrapolated pair, depending on
\* how the table was built.
iluTable(band, solar_z, h2o, o3, aot, km, raises) ==
    IF raises /\ ~InDomain(solar_z, h2o, o3, aot, km)
    THEN [raised |-> TRUE, a |-> 0, b |-> 0]
    ELSE [raised |-> FALSE,
          a |-> 10 * band + solar_z \div 10 + h2o + 2 * o3 + 3 * aot + km,
          b |-> 500 + band + solar_z + 2 * h2o + o3 + aot + 3 * km]

\* 1000 * (0.03275104 * cos(doy / 59.66638337) + 0.96804905)
elliptical_orbit_correction(doy) ==
    (32751 * OrbitCosMilli(doy)) \div 1000000 + 968

corr_pair_unscaled_b(a, b, k) == <<a * k, b>>

\* a *= k; b *= k; (a, b)
corr_pair(a, b, k) == <<a * k, b * k>>

\* The for loop of get_corr_coef from `band` on.  corr_coefs is the local
\* list, loaded the bands whose file has been unpickled so far.
RECURSIVE corr_coef_loop(_, _, _, _, _, _, _)
corr_coef_loop(band, corr_coefs, loaded, atmParams, km, missing, raises) ==
    IF band > NO_OF_BANDS
    THEN [raised |-> "none", corr_coefs |-> corr_coefs, loaded |-> loaded]
    ELSE IF band \in missing
    THEN [raised |-> "FileNotFoundError", corr_coefs |-> corr_coefs, loaded |-> loaded]
    ELSE LET r == iluTable(band, atmParams.solar_z, atmParams.h2o, atmParams.o3,
                           atmParams.aot, km, raises)
             k == elliptical_orbit_correction(atmParams.doy)
         IN  IF r.raised
             THEN [raised |-> "ValueError", corr_coefs |-> corr_coefs,
                   loaded |-> Append(loaded, band)]
             ELSE corr_coef_loop(band + 1, Append(corr_coefs, corr_pair(r.a, r.b, k)),
                                 Append(loaded, band), atmParams, km, missing, raises)

get_corr_coef_checked(atmParams, km, missing, raises) ==
    IF ~InDomain(atmParams.solar_z, atmParams.h2o, atmParams.o3, atmParams.aot, km)
    THEN [raised |-> "ValueError", corr_coefs |-> <<>>, loaded |-> <<>>]
    ELSE corr_coef_loop(1, <<>>, <<>>, atmParams, km, missing, raises)

get_corr_coef(atmParams, km, missing, raises) ==
    corr_coef_loop(1, <<>>, <<>>, atmParams, km, missing, raises)

\* pickle.load counted per band; a table is read again on every call.
RecordLoadsCached(loads, loaded) ==
    [b \in 1..NO_OF_BANDS |->
        IF \E n \in 1..Len(loaded) : loaded[n] = b THEN 1 ELSE loads[b]]

RecordLoads(loads, loaded) ==
    [b \in 1..NO_OF_BANDS |->
        loads[b] + Cardinality({n \in 1..Len(loaded) : loaded[n] = b})]

\* coeff_list.append(corr_coeffs) is reached only when get_corr_coef returned.
StoreCoeffsAlways(list, r) == Append(list, r.corr_coefs)

StoreCoeffs(list, r) ==
    IF r.raised = "none" THEN Append(list, r.corr_coefs) ELSE list

----------------------------------------------------------------------------
(* toa_to_rad_multiplier and atm_corr_band *)

StrKey(s) == [kind |-> "str", str |-> s, int |-> 0]
IntKey(i) == [kind |-> "int", str |-> "", int |-> i]

\* atmParams[key] on the AtmParams namedtuple: a tuple takes integer
\* indices only, a string subscript raises TypeError.
namedtuple_getitem(t, key) ==
    LET fields == <<t.doy, t.solar_z, t.h2o, t.o3, t.aot>>
    IN  IF key.kind # "int"
        THEN [raised |-> "TypeError", value |-> 0]
        ELSE IF key.int \in 0..(Len(fields) - 1)
        THEN [raised |-> "none", value |-> fields[key.int + 1]]
        ELSE [raised |-> "IndexError", value |-> 0]

toa_to_rad_multiplier(bandname, imageInfo, atmParams) ==
    LET ESUN == SolarIrradiance(bandname)
        sz   == namedtuple_getitem(atmParams, StrKey("solar_z"))
        doy  == namedtuple_getitem(atmParams, StrKey("doy"))
        solar_angle_correction == ZenithCosMilli(sz.value)
        d    == 1000 - (1672 * SunDistCosMilli(doy.value)) \div 100000
        d2   == (d * d) \div 1000
    IN  IF sz.raised # "none" THEN [raised |-> sz.raised, value |-> 0]
        ELSE IF doy.raised # "none" THEN [raised |-> doy.raised, value |-> 0]
        ELSE [raised |-> "none",
              value |-> (ESUN * solar_angle_correction * 1000) \div (3142 * d2)]

\* Earth Engine images are expression trees: a list of named bands, each
\* band a tree of the operations applied to it.
Band(name, value) == [name |-> name, value |-> value]

\* ee.Image(S2List.get(img_idx)): the bands of the scene taken at t
SceneImage(t) ==
    [n \in 1..Len(BandNames) |-> Band(BandNames[n], <<"toa", t, BandNames[n]>>)]

\* ee.Image(): a single masked band named "constant"
EmptyImage == <<Band("constant", <<"masked", 0>>)>>

ImageDivide(image, c) ==
    [n \in 1..Len(image) |-> Band(image[n].name, <<"divide", image[n].value, c>>)]

\* image.select(name) then the per-band arithmetic of lines 142-145
SurfaceReflectance(image, name, multiplier, a, b) ==
    LET n == CHOOSE m \in 1..Len(image) : image[m].name = name
    IN  Band(name, <<"divide",
                     <<"subtract", <<"multiply", image[n].value, multiplier>>, a>>,
                     b>>)

\* image.select(0, 1, ..., count - 1)
SelectFirst(image, count) == SubSeq(image, 1, count)

RECURSIVE atm_corr_band_loop(_, _, _, _, _, _)
atm_corr_band_loop(ii, new_image, old_image, cor_coeff_list, imageInfo, atmParams) ==
    IF ii > NO_OF_BANDS
    THEN [raised |-> "none", image |-> SelectFirst(new_image, NO_OF_BANDS)]
    ELSE LET m == toa_to_rad_multiplier(old_image[ii].name, imageInfo, atmParams)
         IN  IF m.raised # "none"
             THEN [raised |-> m.raised, image |-> <<>>]
             ELSE atm_corr_band_loop(
                      ii + 1,
                      Append(new_image,
                             SurfaceReflectance(old_image, old_image[ii].name, m.value,
                                                cor_coeff_list[ii][1],
                                                cor_coeff_list[ii][2])),
                      old_image, cor_coeff_list, imageInfo, atmParams)

atm_corr_band(image, imageInfo, atmParams, km, missing, raises) ==
    LET old_image == ImageDivide(image, 10000)
        cc == get_corr_coef(atmParams, km, missing, raises)
    IN  IF cc.raised # "none"
        THEN [raised |-> cc.raised, image |-> <<>>, loaded |-> cc.loaded]
        ELSE LET r == atm_corr_band_loop(1, EmptyImage, old_image, cc.corr_coefs,
                                         imageInfo, atmParams)
             IN  [raised |-> r.raised, image |-> r.image, loaded |-> cc.loaded]

\* ee.batch.Export.image.toDrive(...): a task that is not started yet
ExportTask(img, idx) ==
    [image |-> img, fileNamePrefix |-> <<"sen2_", idx>>, state |-> "UNSUBMITTED"]

StartAll(tasks) == [n \in 1..Len(tasks) |-> [tasks[n] EXCEPT !.state = "READY"]]

----------------------------------------------------------------------------
(* The script *)

\* An exception nothing catches ends the script where it is raised.
RaisedCaught(e) == [pc |-> "write", error |-> e]

Raised(e) == [pc |-> "crashed", error |-> e]

\* pprint(coeff_list, stream=f) into a file opened with "w"
pprint_report_sliced(list) ==
    [written |-> TRUE, lines |-> IF list = <<>> THEN <<>> ELSE Tail(list)]

pprint_report(list) == [written |-> TRUE, lines |-> list]

Init ==
    /\ \E S2 \in SUBSET Times :
          /\ Cardinality(S2) <= MaxImages
          /\ S2List = SortByTimeStart(S2)
    /\ KM \in Altitudes
    /\ export_flag \in BOOLEAN
    /\ missing_iluts \in MissingChoices
    /\ ilut_raises \in BOOLEAN
    /\ pc = "fetch"
    /\ img_idx = 0
    /\ img_info_properties = NoInfo
    /\ atm_vars = NoAtmParams
    /\ EXPORT = "unbound"
    /\ coeff_list = <<>>
    /\ corrected_images = <<0>>
    /\ export_list = <<>>
    /\ report = [written |-> FALSE, lines |-> <<>>]
    /\ error = "none"
    /\ attempts = [i \in 1..Len(S2List) |-> [s \in Services |-> 0]]
    /\ ilut_loads = [b \in 1..NO_OF_BANDS |-> 0]
    /\ atm_hist = <<>>

\* lines 156-158: the next scene's info is fetched
FetchInfo ==
    /\ pc = "fetch"
    /\ img_idx < NO_OF_IMAGES
    /\ \E outcome \in InfoOutcomes :
          /\ attempts' = Attempt(attempts, img_idx + 1, "info", outcome)
          /\ IF outcome.ok
             THEN /\ img_info_properties' = S2List[img_idx + 1]
                  /\ pc' = "atm"
                  /\ error' = error
             ELSE /\ img_info_properties' = img_info_properties
                  /\ pc' = Raised("EEException").pc
                  /\ error' = Raised("EEException").error
    /\ UNCHANGED <<S2List, KM, export_flag, missing_iluts, ilut_raises, img_idx,
                   atm_vars, EXPORT, coeff_list, corrected_images, export_list,
                   report, ilut_loads, atm_hist>>

\* line 159
AtmCorrImage ==
    /\ pc = "atm"
    /\ \E w \in WaterOutcomes, o \in OzoneOutcomes, a \in AerosolOutcomes :
          LET r == atm_corr_image(img_info_properties, w, o, a)
          IN  /\ attempts' = AttemptAll(attempts, img_idx + 1, r.called, r.outcomes, 1)
              /\ IF r.raised = "none"
                 THEN /\ atm_vars' = r.value
                      /\ atm_hist' = Append(atm_hist, r.value)
                      /\ pc' = "coef"
                      /\ error' = error
                 ELSE /\ UNCHANGED <<atm_vars, atm_hist>>
                      /\ pc' = Raised(r.raised).pc
                      /\ error' = Raised(r.raised).error
    /\ UNCHANGED <<S2List, KM, export_flag, missing_iluts, ilut_raises, img_idx,
                   img_info_properties, EXPORT, coeff_list, corrected_images,
                   export_list, report, ilut_loads>>

\* lines 160-161
GetCorrCoef ==
    /\ pc = "coef"
    /\ LET r == get_corr_coef(atm_vars, KM, missing_iluts, ilut_raises)
       IN  /\ ilut_loads' = RecordLoads(ilut_loads, r.loaded)
           /\ coeff_list' = StoreCoeffs(coeff_list, r)
           /\ IF r.raised = "none"
              THEN pc' = "export" /\ error' = error
              ELSE pc' = Raised(r.raised).pc /\ error' = Raised(r.raised).error
    /\ UNCHANGED <<S2List, KM, export_flag, missing_iluts, ilut_raises, img_idx,
                   img_info_properties, atm_vars, EXPORT, corrected_images,
                   export_list, report, attempts, atm_hist>>

\* lines 163-177, and the step of the for loop
ExportBranch ==
    /\ pc = "export"
    /\ EXPORT' = IF export_flag THEN "True" ELSE "False"
    /\ IF ~export_flag
       THEN /\ img_idx' = img_idx + 1
            /\ pc' = "fetch"
            /\ UNCHANGED <<corrected_images, export_list, error, ilut_loads>>
       ELSE LET img == atm_corr_band(SceneImage(img_info_properties.time_start),
                                     img_info_properties, atm_vars, KM,
                                     missing_iluts, ilut_raises)
            IN  /\ ilut_loads' = RecordLoads(ilut_loads, img.loaded)
                /\ IF img.raised = "none"
                   THEN /\ export_list' = Append(export_list, ExportTask(img.image, img_idx))
                        /\ corrected_images' = Append(corrected_images, img.image)
                        /\ img_idx' = img_idx + 1
                        /\ pc' = "fetch"
                        /\ error' = error
                   ELSE /\ UNCHANGED <<export_list, corrected_images, img_idx>>
                        /\ pc' = Raised(img.raised).pc
                        /\ error' = Raised(img.raised).error
    /\ UNCHANGED <<S2List, KM, export_flag, missing_iluts, ilut_raises,
                   img_info_properties, atm_vars, coeff_list, report, attempts,
                   atm_hist>>

\* line 180, once range(NO_OF_IMAGES) is exhausted
SliceCorrected ==
    /\ pc = "fetch"
    /\ img_idx >= NO_OF_IMAGES
    /\ corrected_images' = Tail(corrected_images)
    /\ pc' = "start"
    /\ UNCHANGED <<S2List, KM, export_flag, missing_iluts, ilut_raises, img_idx,
                   img_info_properties, atm_vars, EXPORT, coeff_list, export_list,
                   report, error, attempts, ilut_loads, atm_hist>>

\* lines 182-184: EXPORT is bound only by the loop body
StartTasks ==
    /\ pc = "start"
    /\ IF EXPORT = "unbound"
       THEN /\ pc' = Raised("NameError").pc
            /\ error' = Raised("NameError").error
            /\ UNCHANGED export_list
       ELSE /\ export_list' = IF EXPORT = "True" THEN StartAll(export_list)
                              ELSE export_list
            /\ pc' = "write"
            /\ error' = error
    /\ UNCHANGED <<S2List, KM, export_flag, missing_iluts, ilut_raises, img_idx,
                   img_info_properties, atm_vars, EXPORT, coeff_list,
                   corrected_images, report, attempts, ilut_loads, atm_hist>>

\* lines 186-187
WriteReport ==
    /\ pc = "write"
    /\ report' = pprint_report(coeff_list)
    /\ pc' = "done"
    /\ UNCHANGED <<S2List, KM, export_flag, missing_iluts, ilut_raises, img_idx,
                   img_info_properties, atm_vars, EXPORT, coeff_list,
                   corrected_images, export_list, error, attempts, ilut_loads,
                   atm_hist>>

Next ==
    \/ FetchInfo
    \/ AtmCorrImage
    \/ GetCorrCoef
    \/ ExportBranch
    \/ SliceCorrected
    \/ StartTasks
    \/ WriteReport

Spec == Init /\ [][Next]_vars

----------------------------------------------------------------------------
(* Vocabulary of the properties *)

Terminated == pc \in {"done", "crashed"}

\* Failures that come from outside the script: a service call, a table file,
\* a table evaluation.
ExternalErrors == {"EEException", "FileNotFoundError", "ValueError"}

ParamsInDomain(p) == InDomain(p.solar_z, p.h2o, p.o3, p.aot, KM)

\* The pair of band i for parameters p when the table answers.
TablePair(i, p) ==
    LET r == iluTable(i, p.solar_z, p.h2o, p.o3, p.aot, KM, FALSE)
        k == elliptical_orbit_correction(p.doy)
    IN  <<r.a * k, r.b * k>>

SceneCoefficients(p) == [i \in 1..NO_OF_BANDS |-> TablePair(i, p)]

\* What a run over the scenes seen so far writes when correction is off.
ReferenceLines == [j \in 1..Len(atm_hist) |-> SceneCoefficients(atm_hist[j])]

UntouchedAfter(i) ==
    \A j \in (i + 1)..NO_OF_IMAGES : \A s \in Services : attempts[j][s] = 0

----------------------------------------------------------------------------
(* C1 *)

\* C1 (as claimed): a failing scene is skipped and the batch goes on, so when
\* the run has ended every scene of the batch has at least been fetched.
C1_FailureIsolated ==
    (Terminated /\ ~export_flag) =>
        \A i \in 1..NO_OF_IMAGES : attempts[i]["info"] >= 1

\* C1 (amended): a failure while scene s is processed is an uncaught
\* exception that ends the run there: no scene after s is fetched, no task is
\* started and no report is written.
C1_FailureAbortsBatch ==
    error # "none" =>
        /\ pc = "crashed"
        /\ ~report.written
        /\ UntouchedAfter(img_idx + 1)
        /\ \A n \in 1..Len(export_list) : export_list[n].state = "UNSUBMITTED"

C1_Witness ==
    /\ pc = "crashed"
    /\ error = "EEException"
    /\ img_idx = 0
    /\ NO_OF_IMAGES = 2
    /\ attempts[2]["info"] = 0

----------------------------------------------------------------------------
(* C2 *)

\* C2 (as claimed): the coefficient output of a run does not depend on
\* EXPORT: when nothing outside the script fails, a run over at least one
\* scene ends with the report a run without correction writes.
C2_FlagIndependentOutput ==
    (Terminated /\ NO_OF_IMAGES >= 1 /\ error \notin ExternalErrors) =>
        /\ Len(atm_hist) = NO_OF_IMAGES
        /\ report = [written |-> TRUE, lines |-> ReferenceLines]

\* With EXPORT false the run does write the reference report.
ReferenceWhenExportOff ==
    (Terminated /\ NO_OF_IMAGES >= 1 /\ error \notin ExternalErrors /\ ~export_flag) =>
        /\ Len(atm_hist) = NO_OF_IMAGES
        /\ report = [written |-> TRUE, lines |-> ReferenceLines]

----------------------------------------------------------------------------
(* C3 *)

\* C3 (as claimed): when no scene fails the run ends with one entry per scene
\* in the report, entry i being the coefficients of the scene with the i-th
\* smallest timestamp, and with one corrected image per scene when correction
\* is on and none when it is off.
C3_AllScenesReported ==
    (Terminated /\ error \notin ExternalErrors) =>
        /\ report.written
        /\ Len(report.lines) = NO_OF_IMAGES
        /\ Len(atm_hist) = NO_OF_IMAGES
        /\ \A j \in 1..NO_OF_IMAGES :
              /\ report.lines[j] = SceneCoefficients(atm_hist[j])
              /\ atm_hist[j].doy = DayOfYear(S2List[j].time_start)
              /\ \A i \in 1..(j - 1) : S2List[i].time_start < S2List[j].time_start
        /\ Len(corrected_images) = IF export_flag THEN NO_OF_IMAGES ELSE 0

----------------------------------------------------------------------------
(* C4 *)

\* C4: every coefficient vector get_corr_coef returned holds NO_OF_BANDS
\* pairs, the i-th being (a_i * k, b_i * k) with (a_i, b_i) the answer of band
\* i's table at (solar_z, h2o, o3, aot, KM) and k the orbit correction of the
\* scene's day of year.
C4_CoefficientsPerBand ==
    \A j \in 1..Len(coeff_list) :
        /\ Len(coeff_list[j]) = NO_OF_BANDS
        /\ \A i \in 1..NO_OF_BANDS :
              LET p == atm_hist[j]
                  t == iluTable(i, p.solar_z, p.h2o, p.o3, p.aot, KM, ilut_raises)
                  k == elliptical_orbit_correction(p.doy)
              IN  /\ ~t.raised
                  /\ coeff_list[j][i][1] = t.a * k
                  /\ coeff_list[j][i][2] = t.b * k

C4_Witness ==
    /\ Len(coeff_list) = 2
    /\ atm_hist[1].doy # atm_hist[2].doy
    /\ KM # 0

----------------------------------------------------------------------------
(* C5 *)

\* C5: coefficient computation is all or nothing per scene: every accumulated
\* vector is complete, and when a table cannot be loaded or evaluated nothing
\* is appended for that scene.
C5_AllOrNothing ==
    /\ \A j \in 1..Len(coeff_list) : Len(coeff_list[j]) = NO_OF_BANDS
    /\ error \in {"FileNotFoundError", "ValueError"} => Len(coeff_list) = img_idx

C5_Witness ==
    /\ error = "FileNotFoundError"
    /\ missing_iluts = {NO_OF_BANDS}
    /\ ilut_loads[NO_OF_BANDS - 1] = 1
    /\ coeff_list = <<>>

----------------------------------------------------------------------------
(* C6 *)

\* C6 (as claimed): whenever the batch ends a final report has been produced.
C6_ReportAlwaysProduced ==
    (Terminated /\ ~export_flag /\ NO_OF_IMAGES >= 1) => report.written

\* C6 (amended): a report is written only by a run that ends without any
\* failure; it holds the coefficient vectors of all scenes and nothing else.
\* When a scene fails no report is written, so the coefficients accumulated
\* for earlier scenes are not persisted.
C6_ReportOnlyOnCleanRun ==
    /\ report.written =>
          /\ pc = "done"
          /\ error = "none"
          /\ Len(report.lines) = NO_OF_IMAGES
          /\ \A j \in 1..NO_OF_IMAGES :
                report.lines[j] = SceneCoefficients(atm_hist[j])
    /\ pc = "crashed" => report = [written |-> FALSE, lines |-> <<>>]

C6_Witness ==
    /\ pc = "crashed"
    /\ error \in ExternalErrors
    /\ Len(coeff_list) = 1
    /\ ~report.written

----------------------------------------------------------------------------
(* C7 *)

\* C7 (as claimed): a scene whose parameters are outside the tables' domain
\* does not appear in the final coefficient output.
C7_OutOfDomainRejected ==
    \A j \in 1..Len(report.lines) : ParamsInDomain(atm_hist[j])

\* C7 (amended): the script checks no domain.  When the tables answer outside
\* their domain the scene's extrapolated coefficients are in the final output
\* like any other scene's; when the tables raise, the exception ends the run
\* with no report.
C7_NoDomainCheck ==
    /\ error = "ValueError" =>
          /\ ilut_raises
          /\ ~ParamsInDomain(atm_vars)
          /\ pc = "crashed"
          /\ ~report.written
    /\ pc = "done" =>
          /\ Len(report.lines) = NO_OF_IMAGES
          /\ \A j \in 1..NO_OF_IMAGES :
                ~ParamsInDomain(atm_hist[j]) =>
                    /\ ~ilut_raises
                    /\ report.lines[j] = SceneCoefficients(atm_hist[j])

C7_Witness ==
    /\ pc = "done"
    /\ NO_OF_IMAGES = 2
    /\ ~ParamsInDomain(atm_hist[1])
    /\ ParamsInDomain(atm_hist[2])

----------------------------------------------------------------------------
(* C8 *)

\* C8 (as claimed): a scene fails on an external service only after the
\* failing call has been retried.
C8_RetriedBeforeFailing ==
    error = "EEException" => \E s \in Services : attempts[img_idx + 1][s] >= 2

\* C8 (amended): no call is retried: each service is called at most once per
\* scene and the first failing call ends the run, the scene unprocessed.
C8_NoRetry ==
    /\ \A i \in 1..NO_OF_IMAGES : \A s \in Services : attempts[i][s] <= 1
    /\ error = "EEException" =>
          /\ pc = "crashed"
          /\ Len(coeff_list) = img_idx
          /\ UntouchedAfter(img_idx + 1)

C8_Witness ==
    /\ error = "EEException"
    /\ attempts[img_idx + 1]["water"] = 1
    /\ attempts[img_idx + 1]["ozone"] = 1
    /\ attempts[img_idx + 1]["aerosol"] = 0

----------------------------------------------------------------------------
(* C9 *)

\* C9 (as claimed): every table is loaded once, before the first scene, so a
\* missing table is found before anything is fetched.
C9_TablesLoadedOnceAtStartup ==
    /\ \A b \in 1..NO_OF_BANDS : ilut_loads[b] <= 1
    /\ error = "FileNotFoundError" =>
          \A i \in 1..NO_OF_IMAGES : \A s \in Services : attempts[i][s] = 0

\* C9 (amended): every call of get_corr_coef loads every table again, once
\* per scene and once more for the scene being corrected.  A missing table
\* is found during the first scene's coefficient computation, after that
\* scene's info and atmospheric parameters were fetched and before any
\* coefficients are accumulated, and ends the run.
C9_TablesLoadedPerScene ==
    /\ error = "none" =>
          \A b \in 1..NO_OF_BANDS : ilut_loads[b] = Len(coeff_list)
    /\ error = "TypeError" =>
          \A b \in 1..NO_OF_BANDS : ilut_loads[b] = Len(coeff_list) + 1
    /\ error = "FileNotFoundError" =>
          /\ pc = "crashed"
          /\ img_idx = 0
          /\ coeff_list = <<>>
          /\ \A s \in Services : attempts[1][s] = 1
          /\ \A b \in 1..NO_OF_BANDS :
                ilut_loads[b] = IF \E m \in missing_iluts : m <= b THEN 0 ELSE 1

C9_Witness ==
    /\ error = "FileNotFoundError"
    /\ attempts[1]["aerosol"] = 1
    /\ NO_OF_IMAGES = 2

----------------------------------------------------------------------------
(* C10 *)

\* The corrected raster of scene j: band i is
\* ((TOA band i / 10000) * multiplier_i - a_i) / b_i.
ExpectedRaster(j) ==
    [i \in 1..NO_OF_BANDS |->
        LET p == atm_hist[j]
            z == ZenithCosMilli(p.solar_z)
            d == 1000 - (1672 * SunDistCosMilli(p.doy)) \div 100000
            m == (SolarIrradiance(BandNames[i]) * z * 1000) \div (3142 * ((d * d) \div 1000))
            toa == <<"toa", S2List[j].time_start, BandNames[i]>>
        IN  <<"divide",
              <<"subtract", <<"multiply", <<"divide", toa, 10000>>, m>>,
                TablePair(i, p)[1]>>,
              TablePair(i, p)[2]>>]

\* C10 (as claimed): with correction on, a run in which nothing outside the
\* script fails ends with one started export task per scene, each holding the
\* scene's corrected raster, and no task is started while scenes remain.
C10_CorrectedRasterPerScene ==
    /\ (export_flag /\ Terminated /\ NO_OF_IMAGES >= 1 /\ error \notin ExternalErrors) =>
          /\ error = "none"
          /\ Len(export_list) = NO_OF_IMAGES
          /\ \A j \in 1..NO_OF_IMAGES :
                /\ export_list[j].state = "READY"
                /\ Len(export_list[j].image) = NO_OF_BANDS
                /\ \A i \in 1..NO_OF_BANDS :
                      export_list[j].image[i].value = ExpectedRaster(j)[i]
    /\ pc \notin {"write", "done"} =>
          \A n \in 1..Len(export_list) : export_list[n].state = "UNSUBMITTED"

====
